---------------------------- MODULE Spec2Model ----------------------------
(***************************************************************************)
(* Model of the Lenses MCP streaming SQL session                           *)
(* (LensesWebSocketClient._make_request, called by the execute_sql tool).  *)
(*                                                                         *)
(* One session = one call of _make_request: open a WebSocket, send the     *)
(* query, then loop on recv(), decoding each frame and dispatching on its  *)
(* upper-cased "type" until a return or an exception.                      *)
(***************************************************************************)
EXTENDS Integers, Sequences, FiniteSets, TLC

(***************************************************************************)
(* Bounds of the model.                                                    *)
(***************************************************************************)
\* Inbound frames one session may consume (Spec).
MaxFrames == 3
\* Inbound frames one session may consume when two sessions run (SpecPair).
MaxPairFrames == 3

\* Concurrent invocations of execute_sql through the module-level client.
Sessions == {"s1", "s2"}
Solo == {"s1"}

(***************************************************************************)
(* Text.  A string is a sequence of character codes (ASCII), so that       *)
(* str.upper() is computed, not assumed.                                   *)
(***************************************************************************)
\* str.upper() on one character: a..z (97..122) map to A..Z (65..90).
UpperChar(c) == IF c \in 97..122 THEN c - 32 ELSE c

\* str.upper()
Upper(str) == [i \in 1..Len(str) |-> UpperChar(str[i])]

\* The patterns of the match statement.
RECORD == <<82, 69, 67, 79, 82, 68>>
END == <<69, 78, 68>>
ERROR == <<69, 82, 82, 79, 82>>

\* Other spellings the server may send.
Record_mixed == <<82, 101, 99, 111, 114, 100>>
end_lower == <<101, 110, 100>>
error_lower == <<101, 114, 114, 111, 114>>
PING == <<80, 73, 78, 71>>
ping_lower == <<112, 105, 110, 103>>

(***************************************************************************)
(* JSON values as json.loads produces them.                                *)
(***************************************************************************)
\* The value under the "type" key of a decoded object.
TypeAbsent == [k |-> "absent", s |-> <<>>]
TypeNumber == [k |-> "num", s |-> <<>>]
TypeStr(str) == [k |-> "str", s |-> str]

\* The value under the "data" key: absent, null, or an object (a set of
\* key/value pairs; the empty set is {}).
DataAbsent == [k |-> "absent", m |-> {}]
DataNull == [k |-> "null", m |-> {}]
DataObj(m) == [k |-> "obj", m |-> m]
PyNone == [k |-> "None", m |-> {}]

EmptyObj == DataObj({})
RowA1 == DataObj({<<"a", 1>>})
RowA2 == DataObj({<<"a", 2>>})
ErrBody == DataObj({<<"message", 500>>})

\* Inbound messages, as text received from the socket.
\*   shape "text"   : not valid JSON
\*   shape "array"  : valid JSON that is not an object
\*   shape "object" : a JSON object, with its "type" and "data" entries
NotJson == [shape |-> "text", type |-> TypeAbsent, data |-> DataAbsent]
JsonArray == [shape |-> "array", type |-> TypeAbsent, data |-> DataAbsent]
Msg(t, d) == [shape |-> "object", type |-> t, data |-> d]

RecordTags == {RECORD, Record_mixed}
EndTags == {END, end_lower}
ErrorTags == {ERROR, error_lower}
OtherTags == {PING, ping_lower}

\* Frames the server may send to a session (Spec).
Frames ==
    {Msg(TypeStr(t), d) : t \in RecordTags,
                          d \in {DataAbsent, DataNull, EmptyObj, RowA1, RowA2}}
    \cup {Msg(TypeStr(t), DataAbsent) : t \in EndTags}
    \cup {Msg(TypeStr(t), d) : t \in ErrorTags, d \in {DataAbsent, ErrBody}}
    \cup {Msg(TypeStr(t), d) : t \in OtherTags, d \in {DataAbsent, RowA1}}
    \cup {NotJson, JsonArray, Msg(TypeAbsent, RowA1), Msg(TypeNumber, RowA1)}

\* Frames the server may send when two sessions run (SpecPair).
PairFrames ==
    {Msg(TypeStr(t), RowA1) : t \in RecordTags}
    \cup {Msg(TypeStr(t), DataAbsent) : t \in EndTags}
    \cup {Msg(TypeStr(t), ErrBody) : t \in ErrorTags}
    \cup {Msg(TypeStr(PING), DataAbsent)}

\* Exceptions of the transport (websockets) and of asyncio.
ConnectErrors == {"InvalidURI", "OSError"}
SendErrors == {"ConnectionClosedError", "TypeError"}
RecvErrors == {"ConnectionClosedError", "ConnectionClosedOK"}
CancelledError == "CancelledError"
NoError == "none"

\* Where an exception came from, and which one it was.
NoFault == [at |-> "none", err |-> NoError]
Fault(at, e) == [at |-> at, err |-> e]

\* What the caller has got back from the call.
NoReturn == [k |-> "noreturn", v |-> <<>>]
ReturnNone == [k |-> "None", v |-> <<>>]
ReturnList(recs) == [k |-> "list", v |-> recs]

VARIABLES
    pc,        \* per session: idle, opening, sending, awaiting, returned, raised
    conn,      \* per session: none, open, closed
    records,   \* per session: the local list `records`
    received,  \* per session: the messages ws.recv() has delivered, in order
    retval,    \* per session: the value returned to the caller
    raised,    \* per session: the exception raised to the caller
    fault,     \* per session: the exception thrown inside the try block, and where
    connects,  \* per session: the calls of websockets.connect made so far
    sql,       \* per session: the `sql` argument of the call
    uri,       \* per session: the uri given to websockets.connect
    sent,      \* per session: the frames ws.send() has sent, in order
    stream     \* per session: the frames the server is going to send, in order

\* The state of the streaming sessions.
wsVars == <<pc, conn, records, received, retval, raised, fault, connects,
           sql, uri, sent, stream>>

\* The unary (HTTP) client, LensesAPIClient, and the call in progress.
VARIABLES
    variant,     \* which LensesAPIClient of the repository is in use
    credential,  \* the configured credential string (token or session cookie)
    cookies,     \* self.cookies, a set of <<name, value>> (cookie variant only)
    hpc,         \* idle, requesting, returned, raised
    hrequest,    \* the arguments of the client.request call in progress or last made
    nreq,        \* client.request calls made by the current _make_request call
    njson,       \* response.json() calls made by the current _make_request call
    hresponse,   \* the response or transport error the current call got
    hret,        \* the value returned to the caller
    hraised      \* the exception raised to the caller

httpVars == <<variant, credential, cookies, hpc, hrequest, nreq, njson,
              hresponse, hret, hraised>>

\* The connection target held by the two clients (self.base_url and
\* self.headers of "http", LensesAPIClient, and "ws", LensesWebSocketClient).
VARIABLES
    base_url,    \* per client: self.base_url
    headers      \* per client: self.headers, a set of <<name, value>>

targetVars == <<base_url, headers>>

\* The tool (facade) call in progress.
VARIABLES
    tpc,         \* idle, awaiting (inside api_client._make_request), returned, raised
    tool,        \* the tool invoked and its arguments
    ncalls,      \* calls of api_client._make_request entered by the current tool call
    tret,        \* the value the tool returned
    traised      \* the exception the tool raised

toolVars == <<tpc, tool, ncalls, tret, traised>>

vars == <<wsVars, httpVars, targetVars, toolVars>>

\* Everything a streaming session leaves alone.
nonSessionVars == <<httpVars, targetVars, toolVars, stream>>


(***************************************************************************)
(* The body of the receive loop, as functions of the local list `records`  *)
(* and the message received.  Each yields what the iteration does next.    *)
(***************************************************************************)
Continue(recs) ==
    [ctl |-> "continue", recs |-> recs, ret |-> NoReturn, err |-> NoError]
Return(recs, v) ==
    [ctl |-> "return", recs |-> recs, ret |-> v, err |-> NoError]
Throw(recs, e) ==
    [ctl |-> "raise", recs |-> recs, ret |-> NoReturn, err |-> e]

\* data.get("data"): None when the key is absent; JSON null decodes to None.
DataGet(msg) ==
    IF msg.data.k \in {"absent", "null"} THEN PyNone ELSE msg.data

\* `not data_`
Falsy(v) == v.k = "None" \/ (v.k = "obj" /\ v.m = {})

\* Variant of CaseRecord: the new record is put at the head of the list.
CaseRecordPrepends(recs, msg) ==
    LET data_ == DataGet(msg)
    IN  IF Falsy(data_)
        THEN Return(recs, ReturnNone)
        ELSE Continue(<<data_>> \o recs)

\* Variant of CaseRecord: falsy data returns the list, as END does.
CaseRecordReturnsList(recs, msg) ==
    LET data_ == DataGet(msg)
    IN  IF Falsy(data_)
        THEN Return(recs, ReturnList(recs))
        ELSE Continue(Append(recs, data_))

\* case "RECORD":
CaseRecord(recs, msg) ==
    LET data_ == DataGet(msg)
    IN  IF Falsy(data_)
        THEN Return(recs, ReturnNone)
        ELSE Continue(Append(recs, data_))

\* Variant of CaseEnd: END is taken as one more message and the loop goes on.
CaseEndContinues(recs, msg) == Continue(recs)

\* case "END":
CaseEnd(recs, msg) == Return(recs, ReturnList(recs))

\* Variant of CaseError: the server's error is raised.
CaseErrorRaises(recs, msg) == Throw(recs, "Exception")

\* case "ERROR":
CaseError(recs, msg) == Return(recs, ReturnList(recs))

\* Variant of CaseOther: an unmatched message ends the stream, as END does.
CaseOtherReturns(recs, msg) == Return(recs, ReturnList(recs))

\* Variant of CaseOther: an unmatched message is kept as a record.
CaseOtherAppends(recs, msg) == Continue(Append(recs, DataGet(msg)))

\* case _:
CaseOther(recs, msg) == Continue(recs)

\* Variant of MessageType: the tag is matched as sent.
MessageTypeAsSent(msg) == msg.type.s

\* message_type = data["type"].upper()
MessageType(msg) == Upper(msg.type.s)

\* match message_type:
Match(recs, msg) ==
    LET message_type == MessageType(msg)
    IN  IF message_type = RECORD THEN CaseRecord(recs, msg)
        ELSE IF message_type = END THEN CaseEnd(recs, msg)
        ELSE IF message_type = ERROR THEN CaseError(recs, msg)
        ELSE CaseOther(recs, msg)

\* Variant of HandleMessage: a message that cannot be decoded or has no
\* string "type" is skipped like an unknown type.
HandleMessageSkipsMalformed(recs, response) ==
    IF response.shape # "object" \/ response.type.k # "str" THEN Continue(recs)
    ELSE Match(recs, response)

\* data = json.loads(response); data["type"].upper(); match ...
\* The exceptions are those Python raises at each step.
HandleMessage(recs, response) ==
    IF response.shape = "text" THEN Throw(recs, "JSONDecodeError")
    ELSE IF response.shape # "object" THEN Throw(recs, "TypeError")
    ELSE IF response.type.k = "absent" THEN Throw(recs, "KeyError")
    ELSE IF response.type.k # "str" THEN Throw(recs, "AttributeError")
    ELSE Match(recs, response)

\* Variant of ExceptClause: the exception is logged and the list returned.
ExceptClauseSwallows(recs, e) == Return(recs, ReturnList(recs))

\* Variant of ExceptClause: a new exception replaces the one caught.
ExceptClauseWraps(recs, e) == Throw(recs, "Exception")

\* except Exception as e: logger.info(...); raise e
ExceptClause(recs, e) == Throw(recs, e)

\* Variant of AsyncWithExit: the connection is left as it is.
AsyncWithExitLeaks(c) == c

\* Leaving `async with websockets.connect(...) as ws` closes the connection.
AsyncWithExit(c) == IF c = "open" THEN "closed" ELSE c

(***************************************************************************)
(* The unary exchange: LensesAPIClient.  The repository holds three copies *)
(* of the class:                                                           *)
(*   "mcp"    src/lenses_mcp/clients/http_client.py  (bearer token)        *)
(*   "root"   src/api_client.py                      (bearer token)        *)
(*   "common" src/common/api_client.py               (session cookie)      *)
(***************************************************************************)
Variants == {"mcp", "root", "common"}

\* Longest credential string tried.
MaxCredentialLen == 3

\* Characters of credential strings: "=", "a", "b".
EQUALS == 61
CredentialChars == {EQUALS, 97, 98}

\* All strings over `chars` of length at most n.
Strings(chars, n) == UNION {[1..k -> chars] : k \in 0..n}

Credentials == Strings(CredentialChars, MaxCredentialLen)

\* "JSESSIONID"
JSESSIONID == <<74, 83, 69, 83, 83, 73, 79, 78, 73, 68>>

\* `'=' in session_cookie`
Contains(str, c) == \E i \in 1..Len(str) : str[i] = c

\* Variant of SplitOnce: str.rsplit('=', 1), the cut is at the last "=".
SplitOnceFromRight(str, c) ==
    LET i == CHOOSE j \in 1..Len(str) :
                 str[j] = c /\ \A k \in (j + 1)..Len(str) : str[k] # c
    IN  <<SubSeq(str, 1, i - 1), SubSeq(str, i + 1, Len(str))>>

\* session_cookie.split('=', 1), for a string that contains "=": the text
\* before the first "=" and the text after it.
SplitOnce(str, c) ==
    LET i == CHOOSE j \in 1..Len(str) :
                 str[j] = c /\ \A k \in 1..(j - 1) : str[k] # c
    IN  <<SubSeq(str, 1, i - 1), SubSeq(str, i + 1, Len(str))>>

\* LensesAPIClient.__init__ (cookie variant): self.cookies
ParseCookie(session_cookie) ==
    IF session_cookie = <<>> THEN {}
    ELSE IF Contains(session_cookie, EQUALS)
         THEN {SplitOnce(session_cookie, EQUALS)}
         ELSE {<<JSESSIONID, session_cookie>>}

\* self.cookies after construction; the bearer variants keep no cookies.
ClientCookies(v, cred) == IF v = "common" THEN ParseCookie(cred) ELSE {}

\* JSON and Python values of the unary exchange: objects are sets of
\* <<key, value>>, values are typed texts.
JStr(str) == [t |-> "str", s |-> str]
JNum(str) == [t |-> "num", s |-> str]
JTrue == [t |-> "bool", s |-> <<84, 114, 117, 101>>]
JObj(m) == [k |-> "obj", m |-> m]
JArr == [k |-> "arr", m |-> {}]
JInvalid == [k |-> "invalid", m |-> {}]
HNoReturn == [k |-> "noreturn", m |-> {}]

\* Response bodies the server may send, as text.
\*   {"title":"not found"}   {"detail":"x"}   {"id":7}   [1]   oops
BodyEmpty == <<>>
BodyTitle == <<123, 34, 116, 105, 116, 108, 101, 34, 58, 34, 110, 111, 116, 32, 102, 111, 117, 110, 100, 34, 125>>
BodyDetail == <<123, 34, 100, 101, 116, 97, 105, 108, 34, 58, 34, 120, 34, 125>>
BodyId == <<123, 34, 105, 100, 34, 58, 55, 125>>
BodyArray == <<91, 49, 93>>
BodyText == <<111, 111, 112, 115>>
Bodies == {BodyEmpty, BodyTitle, BodyDetail, BodyId, BodyArray, BodyText}

\* "not found"
NotFound == <<110, 111, 116, 32, 102, 111, 117, 110, 100>>

\* response.json(): the decoded body, JInvalid when json raises.
JsonLoads(text) ==
    CASE text = BodyTitle -> JObj({<<"title", JStr(NotFound)>>})
      [] text = BodyDetail -> JObj({<<"detail", JStr(<<120>>)>>})
      [] text = BodyId -> JObj({<<"id", JNum(<<55>>)>>})
      [] text = BodyArray -> JArr
      [] OTHER -> JInvalid

\* Status codes the server may answer with.
Statuses == {200, 201, 204, 302, 404, 500}

\* A response: [status, content]; a transport failure: [neterr].
Response(st, body) == [kind |-> "response", status |-> st, content |-> body,
                       err |-> <<>>]
NetworkFailure(text) == [kind |-> "neterr", status |-> 0, content |-> <<>>,
                         err |-> text]
NoResponse == [kind |-> "none", status |-> 0, content |-> <<>>, err |-> <<>>]
Responses == {Response(st, b) : st \in Statuses, b \in Bodies}

\* str(e) of httpx.RequestError: "timed out", "dns", and the empty text
\* (httpx.ReadTimeout carries no message).
NetworkErrors == {<<116, 105, 109, 101, 100, 32, 111, 117, 116>>, <<100, 110, 115>>, <<>>}

\* f"{n}" for a natural number n.
RECURSIVE Decimal(_)
Decimal(n) ==
    IF n < 10 THEN <<48 + n>> ELSE Decimal(n \div 10) \o <<48 + (n % 10)>>

\* Texts of the messages.
\*   "API request failed: "   "Network error: "   "HTTP "   ": "
ApiRequestFailed == <<65, 80, 73, 32, 114, 101, 113, 117, 101, 115, 116, 32, 102, 97, 105, 108, 101, 100, 58, 32>>
NetworkErrorPrefix == <<78, 101, 116, 119, 111, 114, 107, 32, 101, 114, 114, 111, 114, 58, 32>>
HttpWord == <<72, 84, 84, 80, 32>>
ColonSpace == <<58, 32>>
\*   "Operation completed successfully"
OperationCompleted == <<79, 112, 101, 114, 97, 116, 105, 111, 110, 32, 99, 111, 109, 112, 108, 101, 116, 101, 100, 32, 115, 117, 99, 99, 101, 115, 115, 102, 117, 108, 108, 121>>

\* {"success": True, "message": "Operation completed successfully"}
Ack204 == JObj({<<"success", JTrue>>, <<"message", JStr(OperationCompleted)>>})
\* {"success": True}
AckEmpty == JObj({<<"success", JTrue>>})

\* response.raise_for_status() raises unless the status is 2xx.
IsSuccess(st) == st \in 200..299

\* f"HTTP {e.response.status_code}: {e.response.text}"
HttpStatusAndText(resp) ==
    HttpWord \o Decimal(resp.status) \o ColonSpace \o resp.content

\* f"HTTP {e.response.status_code}"
HttpStatusOnly(resp) == HttpWord \o Decimal(resp.status)

\* f"{value}" of a decoded JSON value.
Format(v) == v.s

\* dict.get(key, default) on a decoded object.
DictGet(obj, key, default) ==
    IF \E p \in obj.m : p[1] = key
    THEN Format((CHOOSE p \in obj.m : p[1] = key)[2])
    ELSE default

\* The default of error_response.get("title", ...) in each variant.
TitleDefault(v, resp) ==
    IF v = "mcp" THEN HttpStatusAndText(resp) ELSE HttpStatusOnly(resp)

\* Variant of ErrorDetail: only the status is reported.
ErrorDetailStatusOnly(v, resp) == HttpStatusOnly(resp)

\* except httpx.HTTPStatusError as e: the value of error_detail.
\* A body that is not JSON, or not a JSON object, takes the except branch.
ErrorDetail(v, resp) ==
    LET error_response == JsonLoads(resp.content)
    IN  IF error_response.k = "obj"
        THEN DictGet(error_response, "title", TitleDefault(v, resp))
        ELSE HttpStatusAndText(resp)

\* Outcomes of _make_request.
HReturn(value, n) ==
    [ctl |-> "return", ret |-> value, kind |-> "none", msg |-> <<>>, njson |-> n]
HRaise(kind, msg, n) ==
    [ctl |-> "raise", ret |-> HNoReturn, kind |-> kind, msg |-> msg, njson |-> n]
HRetry == [ctl |-> "retry", ret |-> HNoReturn, kind |-> "none", msg |-> <<>>,
           njson |-> 0]
HNoException == [kind |-> "none", msg |-> <<>>]

\* Variant of On204: the body of a 204 is decoded like any other.
On204Decodes(resp) ==
    IF JsonLoads(resp.content).k = "invalid"
    THEN HRaise("JSONDecodeError", <<>>, 1)
    ELSE HReturn(JsonLoads(resp.content), 1)

\* if response.status_code == 204: return {...}
On204(resp) == HReturn(Ack204, 0)

\* Variant of OnSuccess: the decoded body is wrapped with a success flag.
OnSuccessWraps(resp) ==
    IF resp.content = <<>> THEN HReturn(AckEmpty, 0)
    ELSE IF JsonLoads(resp.content).k # "obj" THEN HReturn(AckEmpty, 1)
    ELSE HReturn(JObj(JsonLoads(resp.content).m \cup {<<"success", JTrue>>}), 1)

\* if not response.content: return {"success": True}; return response.json()
\* json.JSONDecodeError is neither HTTPStatusError nor RequestError: it
\* leaves _make_request as it is.
OnSuccess(resp) ==
    IF resp.content = <<>> THEN HReturn(AckEmpty, 0)
    ELSE IF JsonLoads(resp.content).k = "invalid"
         THEN HRaise("JSONDecodeError", <<>>, 1)
         ELSE HReturn(JsonLoads(resp.content), 1)

\* Variant of OnStatusError: the status error is reported as a network error.
OnStatusErrorAsNetwork(v, resp) ==
    HRaise("Exception", NetworkErrorPrefix \o ErrorDetail(v, resp), 1)

\* except httpx.HTTPStatusError as e: ... raise Exception(...)
OnStatusError(v, resp) ==
    HRaise("Exception", ApiRequestFailed \o ErrorDetail(v, resp), 1)

\* Variant of OnRequestError: the request is tried again.
OnRequestErrorRetries(e) == HRetry

\* except httpx.RequestError as e: raise Exception(f"Network error: {str(e)}")
OnRequestError(e) == HRaise("Exception", NetworkErrorPrefix \o e, 0)

\* The body of the try block once client.request has answered.
HandleResponse(v, resp) ==
    IF resp.status = 204 THEN On204(resp)
    ELSE IF ~IsSuccess(resp.status) THEN OnStatusError(v, resp)
    ELSE OnSuccess(resp)

\* Requests the tools may make: method, endpoint and the `data` argument
\* (None, an empty dict or a payload).
Methods == {"GET", "POST"}
DataNone == [k |-> "None", m |-> {}]

\* Variant of RequestUrl: the endpoint alone is requested.
RequestUrlNoBase(base, endpoint) == endpoint

\* url = f"{self.base_url}{endpoint}"
RequestUrl(base, endpoint) == base \o endpoint

\* No tool invoked.
NoTool == [name |-> "none"]
DataArgs == {DataNone, JObj({}), JObj({<<"name", JStr(<<120>>)>>})}

\* json=data if data else None
JsonArg(data) == IF data.k = "obj" /\ data.m # {} THEN data ELSE DataNone

NoRequest == [method |-> "none", url |-> <<>>, headers |-> {}, json |-> DataNone,
              cookies |-> {}]

(***************************************************************************)
(* The connection target and the texts built from it.                      *)
(***************************************************************************)
Clients == {"http", "ws"}

\* "/"
SLASH == 47

\* str.rstrip(c): the text without its trailing c's.
RECURSIVE RStrip(_, _)
RStrip(str, c) ==
    IF str # <<>> /\ str[Len(str)] = c
    THEN RStrip(SubSeq(str, 1, Len(str) - 1), c)
    ELSE str

\* Base URLs a deployment may configure: "h", "h/", "h//".
ConfiguredUrls == {<<104>>, <<104, SLASH>>, <<104, SLASH, SLASH>>}

\* "Bearer " and "application/json"
BearerPrefix == <<66, 101, 97, 114, 101, 114, 32>>
ApplicationJson == <<97, 112, 112, 108, 105, 99, 97, 116, 105, 111, 110, 47, 106, 115, 111, 110>>

\* self.headers as the constructor of client c builds it; the cookie variant
\* of the unary client carries no Authorization header.
ClientHeaders(c, v, cred) ==
    IF c = "ws" THEN {<<"Authorization", BearerPrefix \o cred>>}
    ELSE {<<"Content-Type", ApplicationJson>>, <<"Accept", ApplicationJson>>}
         \cup (IF v = "common" THEN {}
               ELSE {<<"Authorization", BearerPrefix \o cred>>})

\* "/api/v1/environments" and f"/api/v1/environments/{name}"
EnvironmentsPath == <<47, 97, 112, 105, 47, 118, 49, 47, 101, 110, 118, 105, 114, 111, 110, 109, 101, 110, 116, 115>>
EnvironmentPath(name) == EnvironmentsPath \o <<SLASH>> \o name

\* The environment the sessions and the proxied tools address: "p".
Environment == <<112>>

\* f"/api/v1/environments/{environment}/proxy/api/ws/v2/sql/execute"
SqlEndpoint(environment) ==
    EnvironmentPath(environment) \o <<47, 112, 114, 111, 120, 121, 47, 97, 112, 105, 47, 119, 115, 47, 118, 50, 47, 115, 113, 108, 47, 101, 120, 101, 99, 117, 116, 101>>

\* Query texts: s, s"x", and a single backslash.
QUOTE == 34
BACKSLASH == 92
SelectA == <<115>>
SqlArgs == {SelectA, <<115, QUOTE, 120, QUOTE>>, <<BACKSLASH>>}

\* Variant of JsonString: the text is put between the quotes as it is.
JsonStringUnescaped(str) == <<QUOTE>> \o str \o <<QUOTE>>

\* json.dumps of a str: quotes and backslashes are escaped by a backslash.
RECURSIVE JsonEscape(_)
JsonEscape(str) ==
    IF str = <<>> THEN <<>>
    ELSE (IF str[1] \in {QUOTE, BACKSLASH} THEN <<BACKSLASH, str[1]>>
          ELSE <<str[1]>>) \o JsonEscape(Tail(str))
JsonString(str) == <<QUOTE>> \o JsonEscape(str) \o <<QUOTE>>

\* json.dumps({"sql": sql}): the text {"sql": "<escaped sql>"}
JsonDumps(query) == <<123, 34, 115, 113, 108, 34, 58, 32>> \o JsonString(query) \o <<125>>

\* No call made yet.
NoSql == <<0>>

\* What the server does on a connection: the frames it sends, in order, and
\* whether the connection then fails (closes = TRUE) or stays silent.
ServerStream(frames, closes) == [frames |-> frames, closes |-> closes]
NoStream == ServerStream(<<>>, FALSE)

(***************************************************************************)
(* The tool facade: the registered tools that validate their arguments or  *)
(* build a JSON body, as functions from the arguments (a record `a`) to    *)
(* what the tool does: raise ValueError, or call                           *)
(* api_client._make_request.  Optional arguments are JSON values, DataNone *)
(* standing for None.                                                      *)
(***************************************************************************)
\* Longest environment name tried, besides the two long ones.
MaxNameLen == 2

\* "-", and the longest name create_environment lets through.
HYPHEN == 45
MaxResourceNameLen == 63

\* Names over "-", "a", "A", "_", and names of 63 and 64 letters.
Names ==
    Strings({HYPHEN, 97, 65, 95}, MaxNameLen)
    \cup {[i \in 1..n |-> 97] : n \in {MaxResourceNameLen, MaxResourceNameLen + 1}}

\* `if x:` for None, str, int and dict values.
Truthy(v) == v \notin {DataNone, JStr(<<>>), JNum(<<48>>), JObj({})}

\* str.isalnum() on ASCII text: not empty, digits and letters of either case.
IsAlnum(str) ==
    /\ str # <<>>
    /\ \A i \in 1..Len(str) : str[i] \in (48..57) \cup (65..90) \cup (97..122)

\* str.replace(c, '')
RECURSIVE Remove(_, _)
Remove(str, c) ==
    IF str = <<>> THEN <<>>
    ELSE (IF str[1] = c THEN <<>> ELSE <<str[1]>>) \o Remove(Tail(str), c)

\* Variant of IsBlank: only the empty text is blank.
IsBlankOnlyEmpty(str) == str = <<>>

\* `not description.strip()`: nothing but whitespace (space, tab, newline).
IsBlank(str) == \A i \in 1..Len(str) : str[i] \in {32, 9, 10}

\* valid_tiers = ["development", "staging", "production"]
ValidTiers == {JStr(<<100, 101, 118, 101, 108, 111, 112, 109, 101, 110, 116>>),
               JStr(<<115, 116, 97, 103, 105, 110, 103>>),
               JStr(<<112, 114, 111, 100, 117, 99, 116, 105, 111, 110>>)}

\* Variant of TierRejected: any tier passes.
TierRejectedNever(tier) == FALSE

\* `tier not in valid_tiers`
TierRejected(tier) == tier \notin ValidTiers

\* valid_actions = ["start", "stop", "restart", "pause", "resume"]
ValidActions == {<<115, 116, 97, 114, 116>>, <<115, 116, 111, 112>>,
                 <<114, 101, 115, 116, 97, 114, 116>>,
                 <<112, 97, 117, 115, 101>>, <<114, 101, 115, 117, 109, 101>>}

\* raise ValueError(...)
Invalid == [ctl |-> "raise", kind |-> "ValueError"]

\* api_client._make_request(method, endpoint[, data]) with `data` passed by
\* position (kw = "data"), left out (kw = "none", data = DataNone), or passed
\* under the keyword kw.
Request(method, endpoint, kw, data) ==
    [ctl |-> "call", method |-> method, endpoint |-> endpoint, kw |-> kw,
     data |-> data]

\* if cond: payload[key] = value
PutIf(cond, key, value) == IF cond THEN {<<key, value>>} ELSE {}

get_environment(a) ==
    IF a.name = <<>> THEN Invalid
    ELSE Request("GET", EnvironmentPath(a.name), "none", DataNone)

delete_environment(a) ==
    IF a.name = <<>> THEN Invalid
    ELSE Request("DELETE", EnvironmentPath(a.name), "none", DataNone)

create_environment(a) ==
    IF a.name = <<>> THEN Invalid
    ELSE IF \/ ~IsAlnum(Remove(a.name, HYPHEN))
            \/ a.name[1] = HYPHEN
            \/ a.name[Len(a.name)] = HYPHEN
            \/ Len(a.name) > MaxResourceNameLen
    THEN Invalid
    ELSE IF TierRejected(a.tier) THEN Invalid
    ELSE Request("POST", EnvironmentsPath, "data",
                 JObj({<<"name", JStr(a.name)>>, <<"tier", a.tier>>}
                      \cup PutIf(Truthy(a.display_name), "display_name", a.display_name)
                      \cup PutIf(Truthy(a.metadata), "metadata", a.metadata)))

update_environment(a) ==
    LET payload == PutIf(a.display_name # DataNone, "display_name", a.display_name)
                   \cup PutIf(a.tier # DataNone, "tier", a.tier)
                   \cup PutIf(a.metadata # DataNone, "metadata", a.metadata)
    IN  IF a.name = <<>> THEN Invalid
        ELSE IF a.tier # DataNone /\ TierRejected(a.tier) THEN Invalid
        ELSE IF payload = {} THEN Invalid
        ELSE Request("PATCH", EnvironmentPath(a.name), "data", JObj(payload))

\* .../proxy/api/kafka-connect/clusters/{cluster}/connectors/{connector}/{action}
set_action_on_kafka_connector(a) ==
    IF a.action \notin ValidActions THEN Invalid
    ELSE Request("PUT",
                 EnvironmentPath(a.environment)
                 \o <<47, 112, 114, 111, 120, 121, 47, 97, 112, 105, 47, 107, 97, 102, 107, 97, 45, 99, 111, 110, 110, 101, 99, 116, 47, 99, 108, 117, 115, 116, 101, 114, 115, 47>> \o a.cluster
                 \o <<47, 99, 111, 110, 110, 101, 99, 116, 111, 114, 115, 47>> \o a.connector
                 \o <<SLASH>> \o a.action,
                 "none", DataNone)

\* .../proxy/api/v1/datasets/{connection}/{dataset_name}/description
set_dataset_description(a) ==
    IF IsBlank(a.description) THEN Invalid
    ELSE Request("PUT",
                 EnvironmentPath(a.environment)
                 \o <<47, 112, 114, 111, 120, 121, 47, 97, 112, 105, 47, 118, 49, 47, 100, 97, 116, 97, 115, 101, 116, 115, 47>> \o a.connection
                 \o <<SLASH>> \o a.dataset_name \o <<47, 100, 101, 115, 99, 114, 105, 112, 116, 105, 111, 110>>,
                 "data", JObj({<<"description", JStr(a.description)>>}))

\* .../proxy/api/v1/kafka/topic
create_topic_advanced(a) ==
    LET key == PutIf(Truthy(a.key_format), "key",
                     JObj({<<"format", a.key_format>>}
                          \cup PutIf(Truthy(a.key_schema), "schema", a.key_schema)))
        value == PutIf(Truthy(a.value_format), "value",
                       JObj({<<"format", a.value_format>>}
                            \cup PutIf(Truthy(a.value_schema), "schema", a.value_schema)))
    IN  Request("POST", EnvironmentPath(a.environment) \o <<47, 112, 114, 111, 120, 121, 47, 97, 112, 105, 47, 118, 49, 47, 107, 97, 102, 107, 97, 47, 116, 111, 112, 105, 99>>,
                "data",
                JObj({<<"name", JStr(a.name)>>, <<"partitions", a.partitions>>,
                      <<"replication", a.replication>>}
                     \cup PutIf(Truthy(a.configs), "configs", a.configs)
                     \cup PutIf(Truthy(a.key_format) \/ Truthy(a.value_format),
                                "format", JObj(key \cup value))))

\* .../proxy/api/v1/metadata/topics
create_topic_metadata(a) ==
    Request("POST", EnvironmentPath(a.environment) \o <<47, 112, 114, 111, 120, 121, 47, 97, 112, 105, 47, 118, 49, 47, 109, 101, 116, 97, 100, 97, 116, 97, 47, 116, 111, 112, 105, 99, 115>>,
            "data",
            JObj({<<"topicName", JStr(a.topic_name)>>}
                 \cup PutIf(Truthy(a.key_type), "keyType", a.key_type)
                 \cup PutIf(Truthy(a.value_type), "valueType", a.value_type)
                 \cup PutIf(Truthy(a.key_schema), "keySchema", a.key_schema)
                 \cup PutIf(Truthy(a.key_schema_version), "keySchemaVersion",
                            a.key_schema_version)
                 \cup PutIf(Truthy(a.key_schema_inlined), "keySchemaInlined",
                            a.key_schema_inlined)
                 \cup PutIf(Truthy(a.value_schema), "valueSchema", a.value_schema)
                 \cup PutIf(Truthy(a.value_schema_version), "valueSchemaVersion",
                            a.value_schema_version)
                 \cup PutIf(Truthy(a.value_schema_inlined), "valueSchemaInlined",
                            a.value_schema_inlined)
                 \cup PutIf(Truthy(a.description), "description", a.description)
                 \cup PutIf(Truthy(a.tags), "tags", a.tags)
                 \cup PutIf(a.additional_info # DataNone, "additionalInfo",
                            a.additional_info)))

\* f"/api/v1/environments/{environment}/proxy/api/consumers/{group_id}/offsets"
OffsetsPath(a) ==
    EnvironmentPath(a.environment) \o <<47, 112, 114, 111, 120, 121, 47, 97, 112, 105, 47, 99, 111, 110, 115, 117, 109, 101, 114, 115, 47>> \o a.group_id \o <<47, 111, 102, 102, 115, 101, 116, 115>>

\* The three offset tools pass their payload as `json=...`.
update_consumer_group_offsets(a) ==
    Request("PUT", OffsetsPath(a), "json", a.offsets)

delete_consumer_group_offsets(a) ==
    Request("POST", OffsetsPath(a) \o <<47, 100, 101, 108, 101, 116, 101>>, "json", a.offsets)

update_consumer_group_topic_partition_offset(a) ==
    Request("PUT",
            OffsetsPath(a) \o <<47, 116, 111, 112, 105, 99, 115, 47>> \o a.topic
            \o <<47, 112, 97, 114, 116, 105, 116, 105, 111, 110, 115, 47>> \o a.partition.s,
            "json", JObj({<<"offset", a.offset>>}))

\* Binding the arguments of a call to the parameters (self, method, endpoint,
\* data) of _make_request: Python raises TypeError for a keyword that names
\* no parameter, before the function body runs.
BindsToParameters(call) == call.kw \in {"data", "none"}

(***************************************************************************)
(* Initial state of the unary client: api_client = LensesAPIClient(...) at *)
(* import, no call made.                                                   *)
(***************************************************************************)
InitClient(v, cred) ==
    /\ variant = v
    /\ credential = cred
    /\ cookies = ClientCookies(v, cred)
    /\ hpc = "idle"
    /\ hrequest = NoRequest
    /\ nreq = 0
    /\ njson = 0
    /\ hresponse = NoResponse
    /\ hret = HNoReturn
    /\ hraised = HNoException

\* The two clients are constructed from the configured URL and credential.
InitTarget(url) ==
    /\ base_url = [c \in Clients |-> RStrip(url, SLASH)]
    /\ headers = [c \in Clients |-> ClientHeaders(c, variant, credential)]

\* No tool has been invoked.
InitFacade ==
    /\ tpc = "idle"
    /\ tool = NoTool
    /\ ncalls = 0
    /\ tret = HNoReturn
    /\ traised = HNoException

(***************************************************************************)
(* Initial state: no call has been made.                                   *)
(***************************************************************************)
Init ==
    /\ pc = [s \in Sessions |-> "idle"]
    /\ conn = [s \in Sessions |-> "none"]
    /\ records = [s \in Sessions |-> <<>>]
    /\ received = [s \in Sessions |-> <<>>]
    /\ retval = [s \in Sessions |-> NoReturn]
    /\ raised = [s \in Sessions |-> NoError]
    /\ fault = [s \in Sessions |-> NoFault]
    /\ connects = [s \in Sessions |-> 0]
    /\ sql = [s \in Sessions |-> NoSql]
    /\ uri = [s \in Sessions |-> <<>>]
    /\ sent = [s \in Sessions |-> <<>>]
    /\ stream = [s \in Sessions |-> NoStream]
    /\ InitClient("mcp", <<97>>)
    /\ InitTarget(<<104, SLASH>>)
    /\ InitFacade

(***************************************************************************)
(* Actions of one session s.                                               *)
(***************************************************************************)
\* Variant of Buffer: one list, kept on the shared client, serves every call.
BufferOnClient(s) == records[CHOOSE t \in Solo : TRUE]

\* The list `records` of invocation s: a local of the call, created by it.
Buffer(s) == records[s]

\* The call leaves _make_request with outcome r (a return or a raise):
\* the `async with` block is left and the caller gets the value or exception.
Leave(s, r) ==
    /\ pc' = [pc EXCEPT ![s] = IF r.ctl = "return" THEN "returned" ELSE "raised"]
    /\ retval' = [retval EXCEPT ![s] = r.ret]
    /\ raised' = [raised EXCEPT ![s] = r.err]
    /\ conn' = [conn EXCEPT ![s] = AsyncWithExit(@)]

\* execute_sql(environment, sql) is invoked and calls
\* websocket_client._make_request(endpoint, sql), which builds the uri.
Call(s, Q) ==
    /\ UNCHANGED nonSessionVars
    /\ pc[s] = "idle"
    /\ pc' = [pc EXCEPT ![s] = "opening"]
    /\ \E q \in Q :
        /\ sql' = [sql EXCEPT ![s] = q]
        /\ uri' = [uri EXCEPT ![s] = base_url["ws"] \o SqlEndpoint(Environment)]
    /\ UNCHANGED <<conn, records, received, retval, raised, fault, connects, sent>>

\* websockets.connect succeeds; records = [].
ConnectOk(s) ==
    /\ UNCHANGED nonSessionVars
    /\ pc[s] = "opening"
    /\ pc' = [pc EXCEPT ![s] = "sending"]
    /\ conn' = [conn EXCEPT ![s] = "open"]
    /\ records' = [records EXCEPT ![s] = <<>>]
    /\ connects' = [connects EXCEPT ![s] = @ + 1]
    /\ UNCHANGED <<received, retval, raised, fault, sql, uri, sent>>

\* websockets.connect raises: no connection was opened.
ConnectFail(s) ==
    /\ UNCHANGED nonSessionVars
    /\ pc[s] = "opening"
    /\ \E e \in ConnectErrors :
        /\ fault' = [fault EXCEPT ![s] = Fault("connect", e)]
        /\ Leave(s, ExceptClause(Buffer(s), e))
    /\ connects' = [connects EXCEPT ![s] = @ + 1]
    /\ UNCHANGED <<records, received, sql, uri, sent>>

\* await ws.send(json.dumps({"sql": sql})) succeeds.
SendOk(s) ==
    /\ UNCHANGED nonSessionVars
    /\ pc[s] = "sending"
    /\ pc' = [pc EXCEPT ![s] = "awaiting"]
    /\ sent' = [sent EXCEPT ![s] = Append(@, JsonDumps(sql[s]))]
    /\ UNCHANGED <<conn, records, received, retval, raised, fault, connects, sql, uri>>

\* ws.send raises.
SendFail(s) ==
    /\ UNCHANGED nonSessionVars
    /\ pc[s] = "sending"
    /\ \E e \in SendErrors :
        /\ fault' = [fault EXCEPT ![s] = Fault("send", e)]
        /\ Leave(s, ExceptClause(Buffer(s), e))
    /\ UNCHANGED <<records, received, connects, sql, uri, sent>>

\* One iteration of `while True`: ws.recv() delivers a message, which is
\* decoded and dispatched.
RecvMessage(s, F, max) ==
    /\ UNCHANGED nonSessionVars
    /\ pc[s] = "awaiting"
    /\ Len(received[s]) < max
    /\ \E response \in F :
        LET r == HandleMessage(Buffer(s), response)
        IN  /\ received' = [received EXCEPT ![s] = Append(@, response)]
            /\ UNCHANGED <<connects, sql, uri, sent>>
            /\ records' = [records EXCEPT ![s] = r.recs]
            /\ IF r.ctl = "continue"
               THEN UNCHANGED <<pc, conn, retval, raised, fault>>
               ELSE IF r.ctl = "return"
               THEN Leave(s, r) /\ UNCHANGED fault
               ELSE /\ fault' = [fault EXCEPT ![s] = Fault("decode", r.err)]
                    /\ Leave(s, ExceptClause(r.recs, r.err))

\* ws.recv() raises: read error or the peer closed the connection.
RecvFail(s) ==
    /\ UNCHANGED nonSessionVars
    /\ pc[s] = "awaiting"
    /\ \E e \in RecvErrors :
        /\ fault' = [fault EXCEPT ![s] = Fault("recv", e)]
        /\ Leave(s, ExceptClause(Buffer(s), e))
    /\ UNCHANGED <<records, received, connects, sql, uri, sent>>

\* The task is cancelled while suspended at one of the awaits.  CancelledError
\* is not an Exception: it passes the except clause and unwinds through the
\* `async with`.
Cancel(s) ==
    /\ UNCHANGED nonSessionVars
    /\ pc[s] \in {"opening", "sending", "awaiting"}
    /\ fault' = [fault EXCEPT ![s] = Fault("cancel", CancelledError)]
    /\ Leave(s, Throw(Buffer(s), CancelledError))
    /\ UNCHANGED <<records, received, connects, sql, uri, sent>>

\* A single invocation.
Next ==
    \E s \in Solo :
        \/ Call(s, SqlArgs)
        \/ ConnectOk(s)
        \/ ConnectFail(s)
        \/ SendOk(s)
        \/ SendFail(s)
        \/ RecvMessage(s, Frames, MaxFrames)
        \/ RecvFail(s)
        \/ Cancel(s)

Spec == Init /\ [][Next]_vars

\* Two concurrent invocations, interleaved at their awaits.
NextPair ==
    \E s \in Sessions :
        \/ Call(s, {SelectA})
        \/ ConnectOk(s)
        \/ ConnectFail(s)
        \/ SendOk(s)
        \/ SendFail(s)
        \/ RecvMessage(s, PairFrames, MaxPairFrames)
        \/ RecvFail(s)
        \/ Cancel(s)

SpecPair == Init /\ [][NextPair]_vars

(***************************************************************************)
(* Actions of the unary client.                                            *)
(***************************************************************************)
\* A tool calls api_client._make_request(method, endpoint, data), which
\* issues client.request(...).  A new call may follow a finished one.
MakeRequest(method, endpoint, data) ==
    /\ hpc \in {"idle", "returned", "raised"}
    /\ hrequest' = [method |-> method, url |-> RequestUrl(base_url["http"], endpoint),
                    headers |-> headers["http"], json |-> JsonArg(data),
                    cookies |-> cookies]
    /\ hpc' = "requesting"
    /\ nreq' = 1
    /\ njson' = 0
    /\ hresponse' = NoResponse
    /\ hret' = HNoReturn
    /\ hraised' = HNoException
    /\ UNCHANGED <<variant, credential, cookies, wsVars, targetVars>>

\* Some tool's call, with any method and `data`.
HttpRequest ==
    \E m \in Methods, data \in DataArgs : MakeRequest(m, EnvironmentsPath, data)

\* The call leaves _make_request with outcome r, or asks again.
HttpLeave(r) ==
    /\ hpc' = CASE r.ctl = "return" -> "returned"
                [] r.ctl = "raise" -> "raised"
                [] OTHER -> "requesting"
    /\ nreq' = IF r.ctl = "retry" THEN nreq + 1 ELSE nreq
    /\ njson' = r.njson
    /\ hret' = r.ret
    /\ hraised' = [kind |-> r.kind, msg |-> r.msg]

\* client.request returns a response.
HttpRespond ==
    /\ hpc = "requesting"
    /\ hresponse.kind = "none"
    /\ \E resp \in Responses :
        /\ hresponse' = resp
        /\ HttpLeave(HandleResponse(variant, resp))
    /\ UNCHANGED <<variant, credential, cookies, hrequest, wsVars, targetVars, toolVars>>

\* client.request raises httpx.RequestError (DNS, connect, timeout).
HttpNetworkError ==
    /\ hpc = "requesting"
    /\ hresponse.kind = "none"
    /\ \E e \in NetworkErrors :
        /\ hresponse' = NetworkFailure(e)
        /\ HttpLeave(OnRequestError(e))
    /\ UNCHANGED <<variant, credential, cookies, hrequest, wsVars, targetVars, toolVars>>

\* The clients a deployment may have constructed.  The bearer variants do
\* not parse their credential, so one token stands for all.
InitTools ==
    /\ pc = [s \in Sessions |-> "idle"]
    /\ conn = [s \in Sessions |-> "none"]
    /\ records = [s \in Sessions |-> <<>>]
    /\ received = [s \in Sessions |-> <<>>]
    /\ retval = [s \in Sessions |-> NoReturn]
    /\ raised = [s \in Sessions |-> NoError]
    /\ fault = [s \in Sessions |-> NoFault]
    /\ connects = [s \in Sessions |-> 0]
    /\ sql = [s \in Sessions |-> NoSql]
    /\ uri = [s \in Sessions |-> <<>>]
    /\ sent = [s \in Sessions |-> <<>>]
    /\ stream = [s \in Sessions |-> NoStream]
    /\ \E v \in Variants, cred \in Credentials :
        /\ v = "common" \/ cred = <<97>>
        /\ InitClient(v, cred)
    /\ InitTarget(<<104, SLASH>>)
    /\ InitFacade

\* A tool makes a unary call; the caller invokes one tool at a time.
ToolRequest ==
    /\ \A s \in Sessions : pc[s] = "idle"
    /\ HttpRequest
    /\ UNCHANGED toolVars

\* The execute_sql tool runs one streaming session, when no unary call has
\* been made.
ToolSession ==
    /\ hpc = "idle"
    /\ \E s \in Solo :
        \/ Call(s, {SelectA})
        \/ ConnectOk(s)
        \/ ConnectFail(s)
        \/ SendOk(s)
        \/ SendFail(s)
        \/ RecvMessage(s, PairFrames, MaxPairFrames)
        \/ RecvFail(s)
        \/ Cancel(s)

NextTools ==
    \/ ToolRequest
    \/ HttpRespond
    \/ HttpNetworkError
    \/ ToolSession

SpecTools == InitTools /\ [][NextTools]_vars

(***************************************************************************)
(* Tool calls.  The server registers the tools of one package, each bound  *)
(* to that package's api_client; the caller invokes one tool at a time.    *)
(***************************************************************************)
\* The modelled tools by the client their module imports.
ToolsOf(v) ==
    CASE v = "mcp" -> {"get_environment", "create_environment",
                       "set_action_on_kafka_connector",
                       "update_consumer_group_offsets",
                       "delete_consumer_group_offsets",
                       "update_consumer_group_topic_partition_offset"}
      [] v = "root" -> {"get_environment", "create_environment",
                        "update_environment", "delete_environment"}
      [] OTHER -> {"set_dataset_description", "create_topic_advanced",
                   "create_topic_metadata"}

Dispatch(name, a) ==
    CASE name = "get_environment" -> get_environment(a)
      [] name = "delete_environment" -> delete_environment(a)
      [] name = "create_environment" -> create_environment(a)
      [] name = "update_environment" -> update_environment(a)
      [] name = "set_action_on_kafka_connector" -> set_action_on_kafka_connector(a)
      [] name = "set_dataset_description" -> set_dataset_description(a)
      [] name = "create_topic_advanced" -> create_topic_advanced(a)
      [] name = "create_topic_metadata" -> create_topic_metadata(a)
      [] name = "update_consumer_group_offsets" -> update_consumer_group_offsets(a)
      [] name = "delete_consumer_group_offsets" -> delete_consumer_group_offsets(a)
      [] OTHER -> update_consumer_group_topic_partition_offset(a)

\* Argument values the caller may supply.
\*   texts: None, "", "x"      dicts: None, {}, {"k": "v"}
\*   tiers: the valid ones, "", "gold", "Production"
\*   numbers: None, 0, 1
OptTexts == {DataNone, JStr(<<>>), JStr(<<120>>)}
OptDicts == {DataNone, JObj({}), JObj({<<"k", JStr(<<118>>)>>})}
TierArgs == ValidTiers \cup {JStr(<<>>), JStr(<<103, 111, 108, 100>>),
                             JStr(<<80, 114, 111, 100, 117, 99, 116, 105, 111, 110>>)}
OptNumbers == {DataNone, JNum(<<48>>), JNum(<<49>>)}

\* "development", the default tier of create_environment.
DefaultTier == JStr(<<100, 101, 118, 101, 108, 111, 112, 109, 101, 110, 116>>)

\* The argument records tried for each tool.
Arguments(name) ==
    CASE name \in {"get_environment", "delete_environment"} ->
            {[name |-> n] : n \in {<<>>, <<97>>, <<65, 95>>}}
      [] name = "create_environment" ->
            {[name |-> n, display_name |-> DataNone, tier |-> DefaultTier,
              metadata |-> DataNone] : n \in Names}
            \cup {[name |-> <<97>>, display_name |-> d, tier |-> t, metadata |-> m] :
                    d \in OptTexts, t \in TierArgs, m \in OptDicts}
      [] name = "update_environment" ->
            {[name |-> n, display_name |-> d, tier |-> t, metadata |-> m] :
                n \in {<<>>, <<97>>}, d \in OptTexts,
                t \in TierArgs \cup {DataNone}, m \in OptDicts}
      [] name = "set_action_on_kafka_connector" ->
            {[environment |-> Environment, cluster |-> <<99>>, connector |-> <<110>>,
              action |-> x] :
                x \in ValidActions \cup {<<>>, <<83, 84, 65, 82, 84>>, <<107, 105, 108, 108>>}}
      [] name = "set_dataset_description" ->
            {[environment |-> Environment, connection |-> <<107>>,
              dataset_name |-> <<100>>, description |-> x] :
                x \in {<<>>, <<32>>, <<32, 9, 10>>, <<120>>, <<32, 120, 32>>}}
      [] name = "create_topic_advanced" ->
            {[environment |-> Environment, name |-> <<116>>, partitions |-> JNum(<<49>>),
              replication |-> JNum(<<49>>), configs |-> c, key_format |-> kf,
              key_schema |-> ks, value_format |-> vf, value_schema |-> vs] :
                c \in OptDicts, kf \in {DataNone, JStr(<<65, 86, 82, 79>>)},
                ks \in {DataNone, JStr(<<115>>)},
                vf \in {DataNone, JStr(<<74, 83, 79, 78>>)},
                vs \in {DataNone, JStr(<<115>>)}}
      [] name = "create_topic_metadata" ->
            {[environment |-> Environment, topic_name |-> <<116>>, key_type |-> kt,
              value_type |-> DataNone, key_schema |-> DataNone,
              key_schema_version |-> kv, key_schema_inlined |-> DataNone,
              value_schema |-> DataNone, value_schema_version |-> vv,
              value_schema_inlined |-> DataNone, description |-> DataNone,
              tags |-> DataNone, additional_info |-> ai] :
                kt \in OptTexts, kv \in OptNumbers, vv \in {DataNone, JNum(<<48>>)},
                ai \in {DataNone, JObj({})}}
      [] OTHER ->
            {[environment |-> Environment, group_id |-> <<103>>, offsets |-> JArr,
              topic |-> <<116>>, partition |-> JNum(<<48>>), offset |-> o] :
                o \in {JNum(<<48>>), JNum(<<55>>)}}

\* The clients a deployment of each package constructs.
InitToolCalls ==
    /\ pc = [s \in Sessions |-> "idle"]
    /\ conn = [s \in Sessions |-> "none"]
    /\ records = [s \in Sessions |-> <<>>]
    /\ received = [s \in Sessions |-> <<>>]
    /\ retval = [s \in Sessions |-> NoReturn]
    /\ raised = [s \in Sessions |-> NoError]
    /\ fault = [s \in Sessions |-> NoFault]
    /\ connects = [s \in Sessions |-> 0]
    /\ sql = [s \in Sessions |-> NoSql]
    /\ uri = [s \in Sessions |-> <<>>]
    /\ sent = [s \in Sessions |-> <<>>]
    /\ stream = [s \in Sessions |-> NoStream]
    /\ \E v \in Variants : InitClient(v, <<97>>)
    /\ \E url \in ConfiguredUrls : InitTarget(url)
    /\ InitFacade

\* The tool raises before any call of _make_request is under way: the record
\* of the exchange stays empty.
Reject(kind) ==
    /\ tpc' = "raised"
    /\ traised' = [kind |-> kind, msg |-> <<>>]
    /\ ncalls' = 0
    /\ hpc' = "idle"
    /\ hrequest' = NoRequest
    /\ nreq' = 0
    /\ njson' = 0
    /\ hresponse' = NoResponse
    /\ hret' = HNoReturn
    /\ hraised' = HNoException
    /\ UNCHANGED <<variant, credential, cookies, wsVars, targetVars>>

\* The caller invokes a tool: it validates, builds its body and calls
\* api_client._make_request, or raises.
ToolCall ==
    /\ tpc \in {"idle", "returned", "raised"}
    /\ \A s \in Sessions : pc[s] = "idle"
    /\ \E name \in ToolsOf(variant) :
        \E a \in Arguments(name) :
            LET out == Dispatch(name, a)
            IN  /\ tool' = [name |-> name, a |-> a]
                /\ tret' = HNoReturn
                /\ IF out.ctl = "raise" THEN Reject(out.kind)
                   ELSE IF ~BindsToParameters(out) THEN Reject("TypeError")
                   ELSE /\ MakeRequest(out.method, out.endpoint, out.data)
                        /\ tpc' = "awaiting"
                        /\ ncalls' = 1
                        /\ traised' = HNoException

\* `return await api_client._make_request(...)`: the tool hands on what the
\* call returned or raised.
ToolReturn ==
    /\ tpc = "awaiting"
    /\ hpc \in {"returned", "raised"}
    /\ tpc' = hpc
    /\ tret' = hret
    /\ traised' = hraised
    /\ UNCHANGED <<tool, ncalls, httpVars, wsVars, targetVars>>

NextFacade ==
    \/ ToolCall
    \/ HttpRespond
    \/ HttpNetworkError
    \/ ToolReturn
    \/ ToolSession

SpecFacade == InitToolCalls /\ [][NextFacade]_vars

(***************************************************************************)
(* One session against a server whose stream is fixed in advance: the      *)
(* connection is established, the query sent, and each ws.recv() delivers  *)
(* the next frame of the stream, or fails when the stream is exhausted and *)
(* the connection closes.                                                  *)
(***************************************************************************)
\* Longest stream tried.
MaxStream == 3

\* Frames of the streams.
StreamFrames ==
    {Msg(TypeStr(RECORD), RowA1), Msg(TypeStr(RECORD), EmptyObj),
     Msg(TypeStr(end_lower), DataAbsent), Msg(TypeStr(ERROR), ErrBody),
     Msg(TypeStr(PING), DataAbsent), NotJson}

Streams ==
    {ServerStream(f, c) : f \in Strings(StreamFrames, MaxStream), c \in BOOLEAN}

InitStream ==
    /\ pc = [s \in Sessions |-> "idle"]
    /\ conn = [s \in Sessions |-> "none"]
    /\ records = [s \in Sessions |-> <<>>]
    /\ received = [s \in Sessions |-> <<>>]
    /\ retval = [s \in Sessions |-> NoReturn]
    /\ raised = [s \in Sessions |-> NoError]
    /\ fault = [s \in Sessions |-> NoFault]
    /\ connects = [s \in Sessions |-> 0]
    /\ sql = [s \in Sessions |-> NoSql]
    /\ uri = [s \in Sessions |-> <<>>]
    /\ sent = [s \in Sessions |-> <<>>]
    /\ \E st \in Streams :
        stream = [s \in Sessions |-> IF s \in Solo THEN st ELSE NoStream]
    /\ InitClient("mcp", <<97>>)
    /\ InitTarget(<<104, SLASH>>)
    /\ InitFacade

\* ws.recv() delivers the next frame of the stream.
StreamRecv(s) ==
    /\ Len(received[s]) < Len(stream[s].frames)
    /\ RecvMessage(s, {stream[s].frames[Len(received[s]) + 1]},
                   Len(stream[s].frames))

\* The stream is exhausted and the connection fails: ws.recv() raises.
StreamFail(s) ==
    /\ Len(received[s]) = Len(stream[s].frames)
    /\ stream[s].closes
    /\ RecvFail(s)

NextStream ==
    \E s \in Solo :
        \/ Call(s, {SelectA})
        \/ ConnectOk(s)
        \/ SendOk(s)
        \/ StreamRecv(s)
        \/ StreamFail(s)

\* Each await resumes when the server has done its part: a session that can
\* take a step eventually takes one.
SpecStream == InitStream /\ [][NextStream]_vars /\ WF_vars(NextStream)

(***************************************************************************)
(* Vocabulary of the properties.  Frames are classified here by their tag  *)
(* compared without regard to letter case, independently of the code's     *)
(* own use of upper().                                                     *)
(***************************************************************************)
LowerChar(c) == IF c \in 65..90 THEN c + 32 ELSE c
Lower(str) == [i \in 1..Len(str) |-> LowerChar(str[i])]

WellFormed(f) == f.shape = "object" /\ f.type.k = "str"
Tagged(f, tag) == WellFormed(f) /\ Lower(f.type.s) = Lower(tag)
IsRecordFrame(f) == Tagged(f, RECORD)
IsEndFrame(f) == Tagged(f, END)
IsErrorFrame(f) == Tagged(f, ERROR)
IsUnknownFrame(f) ==
    WellFormed(f) /\ ~IsRecordFrame(f) /\ ~IsEndFrame(f) /\ ~IsErrorFrame(f)

\* The frame carries a non-empty data object.
HasData(f) == f.data.k = "obj" /\ f.data.m # {}
IsDataRecord(f) == IsRecordFrame(f) /\ HasData(f)
IsEmptyRecord(f) == IsRecordFrame(f) /\ ~HasData(f)

Last(h) == h[Len(h)]
Front(h) == SubSeq(h, 1, Len(h) - 1)
Payloads(h) == [i \in 1..Len(h) |-> h[i].data]
AllDataRecords(h) == \A i \in 1..Len(h) : IsDataRecord(h[i])
Range(h) == {h[i] : i \in 1..Len(h)}

Terminal(s) == pc[s] \in {"returned", "raised"}
\* What the caller of session s observes.
Outcome(s) == <<pc[s], retval[s], raised[s]>>

(***************************************************************************)
(* Properties of the streaming session.                                    *)
(***************************************************************************)

\* C1.  END path: when the frames received are n >= 0 RECORD frames with
\* non-empty data followed by one END frame, the call has returned exactly the
\* list of those n payloads, in arrival order.
C1_EndReturnsAllRecords ==
    \A s \in Sessions :
        (/\ received[s] # <<>>
         /\ IsEndFrame(Last(received[s]))
         /\ AllDataRecords(Front(received[s])))
        => /\ pc[s] = "returned"
           /\ raised[s] = NoError
           /\ retval[s] = ReturnList(Payloads(Front(received[s])))

\* C1 witness: two different records then END, both returned in order.
C1_Witness ==
    \E s \in Sessions :
        /\ Len(received[s]) = 3
        /\ IsEndFrame(Last(received[s]))
        /\ AllDataRecords(Front(received[s]))
        /\ retval[s] = ReturnList(<<RowA1, RowA2>>)

\* C2 (as claimed).  Premature termination: when a RECORD frame with missing
\* or empty data arrives after k >= 0 RECORD frames with non-empty data, the
\* call returns, without raising, the list of the k records accumulated.
C2_EmptyRecordReturnsBuffer ==
    \A s \in Sessions :
        (/\ received[s] # <<>>
         /\ IsEmptyRecord(Last(received[s]))
         /\ AllDataRecords(Front(received[s])))
        => /\ pc[s] = "returned"
           /\ raised[s] = NoError
           /\ retval[s] = ReturnList(Payloads(Front(received[s])))

\* C3.  A RECORD frame with absent or empty data ends the session at once (it
\* is the last frame received and the call has returned) and the buffer is
\* discarded: no accumulated record is in the value the caller gets.
C3_EmptyRecordDiscardsBuffer ==
    \A s \in Sessions :
        \A i \in 1..Len(received[s]) :
            IsEmptyRecord(received[s][i])
            => /\ i = Len(received[s])
               /\ pc[s] = "returned"
               /\ retval[s].v = <<>>

\* C3 witness: records were accumulated, then an empty RECORD arrived.
C3_Witness ==
    \E s \in Sessions :
        /\ Len(records[s]) = 2
        /\ IsEmptyRecord(Last(received[s]))
        /\ pc[s] = "returned"
        /\ retval[s].v = <<>>

\* C4.  Soft completion: when an ERROR frame arrives after k >= 0 RECORD
\* frames with non-empty data, the call returns (does not raise) exactly those
\* k records in order, and the ERROR frame's content is not in the value.
C4_ErrorFrameReturnsRecords ==
    \A s \in Sessions :
        (/\ received[s] # <<>>
         /\ IsErrorFrame(Last(received[s]))
         /\ AllDataRecords(Front(received[s])))
        => /\ pc[s] = "returned"
           /\ raised[s] = NoError
           /\ retval[s] = ReturnList(Payloads(Front(received[s])))
           /\ Last(received[s]).data \notin Range(retval[s].v)

\* C4 witness: one record, then an ERROR frame carrying a body.
C4_Witness ==
    \E s \in Sessions :
        /\ Len(received[s]) = 2
        /\ IsErrorFrame(Last(received[s]))
        /\ Last(received[s]).data = ErrBody
        /\ retval[s] = ReturnList(<<RowA1>>)

\* C5.  Hard fault: when recv() raises while the session waits, after any
\* number of accumulated records, the call raises and returns no value.
C5_RecvFaultRaises ==
    \A s \in Sessions :
        fault[s].at = "recv"
        => /\ pc[s] = "raised"
           /\ raised[s] # NoError
           /\ retval[s] = NoReturn

\* C5 witness: the connection fails after two records were accumulated.
C5_Witness ==
    \E s \in Sessions :
        /\ fault[s].at = "recv"
        /\ Len(records[s]) = 2
        /\ pc[s] = "raised"

\* The frames of h that are not of unknown type, in order.
KnownFrames(h) == SelectSeq(h, LAMBDA f : ~IsUnknownFrame(f))

\* Session s has just received a frame of unknown type.
UnknownFrameStep(s) ==
    /\ Len(received'[s]) = Len(received[s]) + 1
    /\ IsUnknownFrame(Last(received'[s]))

\* C6.  Unknown frames: a frame whose type is none of RECORD, END, ERROR
\* leaves the buffer and the session's state unchanged, the session still
\* waiting; and two finished sessions whose frame sequences differ only by
\* frames of unknown type (same terminal event) have the same outcome.
C6_UnknownFramesIgnored ==
    /\ [][\A s \in Sessions :
            UnknownFrameStep(s)
            => /\ records'[s] = records[s]
               /\ pc'[s] = "awaiting" /\ pc[s] = "awaiting"
               /\ conn'[s] = conn[s]
               /\ retval'[s] = retval[s]
               /\ raised'[s] = raised[s]]_vars
    /\ [](\A s, t \in Sessions :
            (/\ Terminal(s) /\ Terminal(t)
             /\ fault[s] = fault[t]
             /\ KnownFrames(received[s]) = KnownFrames(received[t]))
            => Outcome(s) = Outcome(t))

\* C6 witness: two finished sessions, one of which got an extra unknown frame
\* before its record; both returned the record.
C6_Witness ==
    \E s, t \in Sessions :
        /\ Terminal(s) /\ Terminal(t)
        /\ Len(received[s]) = 2 /\ Len(received[t]) = 3
        /\ IsUnknownFrame(received[t][1])
        /\ KnownFrames(received[t]) = received[s]
        /\ retval[s] = ReturnList(<<RowA1>>)
        /\ retval[t] = ReturnList(<<RowA1>>)

\* Two frame sequences that differ at most in the letter case of type tags.
SameUpToCase(h, g) ==
    /\ Len(h) = Len(g)
    /\ \A i \in 1..Len(h) :
        /\ h[i].shape = g[i].shape
        /\ h[i].data = g[i].data
        /\ h[i].type.k = g[i].type.k
        /\ Lower(h[i].type.s) = Lower(g[i].type.s)

\* C7.  Case-insensitive tags: two finished sessions whose frame sequences
\* differ only in the letter case of their type tags (same terminal event)
\* have the same outcome.
C7_CaseInsensitiveTags ==
    \A s, t \in Sessions :
        (/\ Terminal(s) /\ Terminal(t)
         /\ fault[s] = fault[t]
         /\ SameUpToCase(received[s], received[t]))
        => Outcome(s) = Outcome(t)

\* C7 witness: "Record", "end" in one session and "RECORD", "END" in the
\* other; both returned the record.
C7_Witness ==
    \E s, t \in Sessions :
        /\ received[s] = <<Msg(TypeStr(Record_mixed), RowA1),
                           Msg(TypeStr(end_lower), DataAbsent)>>
        /\ received[t] = <<Msg(TypeStr(RECORD), RowA1),
                           Msg(TypeStr(END), DataAbsent)>>
        /\ retval[s] = ReturnList(<<RowA1>>)
        /\ retval[t] = ReturnList(<<RowA1>>)

\* C8.  Guaranteed release: in every terminal state of a session (returned or
\* raised, by whichever path) its connection is not open.
C8_ConnectionReleased ==
    \A s \in Sessions : Terminal(s) => conn[s] # "open"

\* C8 witness: a session cancelled while waiting for a frame; its connection
\* had been opened and is closed.
C8_Witness ==
    \E s \in Sessions :
        /\ pc[s] = "raised"
        /\ fault[s].at = "cancel"
        /\ received[s] # <<>>
        /\ conn[s] = "closed"

\* C9.  Open/send failure: when connecting or sending the query fails, the
\* session is failed, no frame has been received, no value is returned and
\* the exception raised is the very one the transport threw.
C9_OpenSendFailurePropagates ==
    \A s \in Sessions :
        fault[s].at \in {"connect", "send"}
        => /\ pc[s] = "raised"
           /\ raised[s] = fault[s].err
           /\ received[s] = <<>>
           /\ retval[s] = NoReturn

\* C9 witness: sending the query failed with ConnectionClosedError.
C9_Witness ==
    \E s \in Sessions :
        /\ fault[s] = Fault("send", "ConnectionClosedError")
        /\ raised[s] = "ConnectionClosedError"
        /\ pc[s] = "raised"

\* C10 (as claimed).  All-or-error: before the session is terminal the caller
\* has neither value nor error; a finished session has delivered either a list
\* of records and no error, or an error and no value.
C10_ListOrError ==
    \A s \in Sessions :
        /\ ~Terminal(s) => retval[s] = NoReturn /\ raised[s] = NoError
        /\ pc[s] = "returned" => retval[s].k = "list" /\ raised[s] = NoError
        /\ pc[s] = "raised" => retval[s] = NoReturn /\ raised[s] # NoError

\* C11.  Unbounded wait: as long as the server has sent only frames of
\* unknown type and nothing has failed (no fault, no cancellation), the
\* session is neither returned nor raised: it is still waiting for a frame,
\* however many such frames it has consumed.
C11_UnknownOnlyKeepsWaiting ==
    \A s \in Sessions :
        (/\ received[s] # <<>>
         /\ \A i \in 1..Len(received[s]) : IsUnknownFrame(received[s][i])
         /\ fault[s] = NoFault)
        => pc[s] = "awaiting"

\* C11 witness: the session has consumed as many unknown frames as the model
\* allows and is still waiting.
C11_Witness ==
    \E s \in Sessions :
        /\ Len(received[s]) = MaxFrames
        /\ \A i \in 1..Len(received[s]) : IsUnknownFrame(received[s][i])
        /\ pc[s] = "awaiting"

\* The payloads of the RECORD frames of h that carry non-empty data, in order.
DataPayloads(h) == Payloads(SelectSeq(h, IsDataRecord))

\* g is h, or h with one element appended.
SameOrAppended(h, g) ==
    \/ g = h
    \/ Len(g) = Len(h) + 1 /\ SubSeq(g, 1, Len(h)) = h

\* C12.  Ordering and append-only buffer: in every state the buffer is the
\* sequence of payloads of the non-empty-data RECORD frames processed so far,
\* in arrival order; a step leaves it alone or appends one record at its end.
C12_BufferIsOrderedAppendOnly ==
    /\ [](\A s \in Sessions : records[s] = DataPayloads(received[s]))
    /\ [][\A s \in Sessions : SameOrAppended(records[s], records'[s])]_vars

\* C12 witness: two different records arrived in the order a:2, a:1, with a
\* frame of unknown type among the three frames, and the buffer has that order.
C12_Witness ==
    \E s \in Sessions :
        /\ Len(received[s]) = 3
        /\ \E i \in 1..3 : IsUnknownFrame(received[s][i])
        /\ records[s] = <<RowA2, RowA1>>

\* C13.  Independence of concurrent sessions: under every interleaving of two
\* sessions, each session's buffer holds the payloads of the frames received
\* on its own connection and nothing else, a returned list is made of those
\* payloads only, and two finished sessions with the same frame sequence and
\* terminal event have the same outcome, whatever the other session did.
C13_SessionsIndependent ==
    \A s \in Sessions :
        /\ records[s] = DataPayloads(received[s])
        /\ retval[s].k = "list" => retval[s].v = DataPayloads(received[s])
        /\ \A t \in Sessions :
            (/\ Terminal(s) /\ Terminal(t)
             /\ fault[s] = fault[t]
             /\ received[s] = received[t])
            => Outcome(s) = Outcome(t)

\* C13 witness: both sessions have finished; one returned two records, the
\* other, which received no record, returned none.
C13_Witness ==
    \E s, t \in Sessions :
        /\ s # t
        /\ retval[s] = ReturnList(<<RowA1, RowA1>>)
        /\ Len(received[t]) = 1
        /\ retval[t] = ReturnList(<<>>)

(***************************************************************************)
(* Properties of the unary exchange and of the client's construction.      *)
(***************************************************************************)
\* The current unary call has finished.
HttpDone == hpc \in {"returned", "raised"}
\* The current unary call got a response with this status.
GotStatus(st) == hresponse.kind = "response" /\ hresponse.status = st
GotNon2xx == hresponse.kind = "response" /\ hresponse.status \notin 200..299

\* Text `pre` starts text `str`; text `sub` occurs in text `str`.
StartsWith(str, pre) ==
    Len(pre) <= Len(str) /\ SubSeq(str, 1, Len(pre)) = pre
OccursIn(sub, str) ==
    \E i \in 0..(Len(str) - Len(sub)) : SubSeq(str, i + 1, i + Len(sub)) = sub

\* C14.  HTTP 204: a response with status 204 yields the acknowledgment
\* {success: true, message: ...} and response.json() is not called, whatever
\* the body, in every variant of the client.
C14_NoContentAcknowledged ==
    GotStatus(204)
    => /\ hpc = "returned"
       /\ hret = Ack204
       /\ njson = 0
       /\ hraised = HNoException

\* C14 witness: a 204 whose body is not JSON was acknowledged.
C14_Witness ==
    /\ GotStatus(204)
    /\ hresponse.content = BodyText
    /\ hret = Ack204

\* C15.  Other 2xx: for a 2xx status other than 204, an empty body yields
\* {success: true}; a non-empty body that is JSON yields the decoded value,
\* unchanged.
C15_SuccessBodyReturnedAsIs ==
    (/\ hresponse.kind = "response"
     /\ hresponse.status \in 200..299
     /\ hresponse.status # 204)
    => /\ hresponse.content = <<>>
          => hpc = "returned" /\ hret = AckEmpty /\ njson = 0
       /\ (hresponse.content # <<>> /\ JsonLoads(hresponse.content) # JInvalid)
          => hpc = "returned" /\ hret = JsonLoads(hresponse.content)

\* C15 witness: a 201 carrying {"id":7} returned that object.
C15_Witness ==
    /\ GotStatus(201)
    /\ hresponse.content = BodyId
    /\ hret = JObj({<<"id", JNum(<<55>>)>>})

\* C16.  Remote error message: a non-2xx response whose body is a JSON
\* object with a title raises an error whose message contains the title
\* text, and returns no value.
C16_TitleInErrorMessage ==
    (GotNon2xx /\ hresponse.content = BodyTitle)
    => /\ hpc = "raised"
       /\ hret = HNoReturn
       /\ hraised.kind = "Exception"
       /\ OccursIn(NotFound, hraised.msg)

\* C16 witness: 404 with {"title":"not found"} raised
\* "API request failed: not found".
C16_Witness ==
    /\ GotStatus(404)
    /\ hresponse.content = BodyTitle
    /\ hraised.msg = ApiRequestFailed \o NotFound

\* The body yields no title: it is not JSON, or not an object, or an object
\* without a "title" entry.
NoTitleIn(body) ==
    body \in {BodyEmpty, BodyDetail, BodyId, BodyArray, BodyText}

\* C17 (as claimed).  Error fallback: a non-2xx response from which no title
\* can be extracted raises a message made of "HTTP <status>: <raw body>",
\* in every variant of the client.
C17_FallbackHasStatusAndBody ==
    (GotNon2xx /\ NoTitleIn(hresponse.content))
    => /\ hpc = "raised"
       /\ hraised.msg = ApiRequestFailed \o HttpWord
                          \o Decimal(hresponse.status) \o ColonSpace
                          \o hresponse.content

\* The same statement for the variant of lenses_mcp/clients/http_client.py
\* alone, where it holds.
C17_FallbackInMcpVariant ==
    variant = "mcp" => C17_FallbackHasStatusAndBody

\* C18.  Network failure: a transport failure and a non-2xx response both
\* raise an Exception; the first message starts with "Network error: " and
\* not with "API request failed: ", the second the other way round.
C18_ErrorPrefixesDistinct ==
    /\ hresponse.kind = "neterr"
       => /\ hpc = "raised"
          /\ hraised.kind = "Exception"
          /\ StartsWith(hraised.msg, NetworkErrorPrefix)
          /\ ~StartsWith(hraised.msg, ApiRequestFailed)
    /\ GotNon2xx
       => /\ hpc = "raised"
          /\ hraised.kind = "Exception"
          /\ StartsWith(hraised.msg, ApiRequestFailed)
          /\ ~StartsWith(hraised.msg, NetworkErrorPrefix)

\* C18 witness: a 500 was reported with the API prefix.
C18_Witness ==
    /\ GotStatus(500)
    /\ hresponse.content = BodyText
    /\ StartsWith(hraised.msg, ApiRequestFailed)
    /\ hraised.kind = "Exception"

\* C19.  Single attempt: a unary call has issued exactly one HTTP request,
\* while it waits and when it has finished by a value, a status error or a
\* network failure; a streaming session never connects twice, and has
\* connected exactly once when it holds or held a connection or finished
\* otherwise than by cancellation.
C19_SingleAttempt ==
    /\ hpc # "idle" => nreq = 1
    /\ \A s \in Sessions :
        /\ connects[s] <= 1
        /\ conn[s] # "none" => connects[s] = 1
        /\ (Terminal(s) /\ fault[s].at # "cancel") => connects[s] = 1

\* C19 witness: a unary call ended by a network failure after one request.
C19_Witness ==
    /\ hpc = "raised"
    /\ hresponse.kind = "neterr"
    /\ nreq = 1

\* C20.  Cookie credential parsing (cookie variant): a credential with "="
\* gives exactly one cookie, named by the text before the first "=" and
\* valued by all the text after it; a non-empty credential without "=" gives
\* exactly the cookie JSESSIONID = credential; an empty one gives no cookie.
C20_CookieParsing ==
    variant = "common"
    => IF credential = <<>> THEN cookies = {}
       ELSE IF \E i \in 1..Len(credential) : credential[i] = EQUALS
            THEN /\ Cardinality(cookies) = 1
                 /\ \A c \in cookies :
                      /\ c[1] \o <<EQUALS>> \o c[2] = credential
                      /\ \A i \in 1..Len(c[1]) : c[1][i] # EQUALS
            ELSE cookies = {<<JSESSIONID, credential>>}

\* C20 witness: the credential "a==" gave the cookie a with value "=".
C20_Witness ==
    /\ variant = "common"
    /\ credential = <<97, EQUALS, EQUALS>>
    /\ cookies = {<<(<<97>>), (<<EQUALS>>)>>}
    /\ hrequest.cookies = cookies
    /\ hpc = "returned"

(***************************************************************************)
(* Properties of the session's protocol: the outbound frame, malformed     *)
(* inbound frames, termination.                                            *)
(***************************************************************************)
\* The text {"sql":  that opens the outbound JSON object.
SqlObjectOpen == <<123, 34, 115, 113, 108, 34, 58, 32>>

\* The inside of a JSON string literal is well escaped: no bare quote, every
\* backslash followed by a quote or a backslash.
RECURSIVE WellEscaped(_)
WellEscaped(body) ==
    IF body = <<>> THEN TRUE
    ELSE IF body[1] = BACKSLASH
    THEN /\ Len(body) >= 2
         /\ body[2] \in {QUOTE, BACKSLASH}
         /\ WellEscaped(SubSeq(body, 3, Len(body)))
    ELSE body[1] # QUOTE /\ WellEscaped(Tail(body))

\* The text a well-escaped JSON string literal stands for.
RECURSIVE JsonUnescape(_)
JsonUnescape(body) ==
    IF body = <<>> THEN <<>>
    ELSE IF body[1] = BACKSLASH /\ Len(body) >= 2
    THEN <<body[2]>> \o JsonUnescape(SubSeq(body, 3, Len(body)))
    ELSE <<body[1]>> \o JsonUnescape(Tail(body))

\* frame is the JSON object {"sql": q}.
CarriesSql(frame, q) ==
    LET body == SubSeq(frame, Len(SqlObjectOpen) + 2, Len(frame) - 2)
    IN  /\ frame = SqlObjectOpen \o <<QUOTE>> \o body \o <<QUOTE, 125>>
        /\ WellEscaped(body)
        /\ JsonUnescape(body) = q

\* C25.  Protocol order: a session never sends more than one frame; it sends
\* none before the connection is established; once it awaits or has got an
\* inbound frame it has sent exactly one; and that frame is the JSON object
\* {"sql": <query text>} with the caller's query text.
C25_OneQueryFrameFirst ==
    \A s \in Sessions :
        /\ Len(sent[s]) <= 1
        /\ conn[s] = "none" => sent[s] = <<>>
        /\ (pc[s] = "awaiting" \/ received[s] # <<>>) => Len(sent[s]) = 1
        /\ sent[s] # <<>> => CarriesSql(sent[s][1], sql[s])

\* C25 witness: a session whose query holds quotes has ended after two
\* inbound frames, with its single frame sent.
C25_Witness ==
    \E s \in Sessions :
        /\ sql[s] = <<115, QUOTE, 120, QUOTE>>
        /\ Len(sent[s]) = 1
        /\ Len(received[s]) = 2
        /\ pc[s] = "returned"

\* C26.  Malformed frame: a received frame that is not JSON, not a JSON
\* object, has no "type" or a "type" that is not a string is the last frame
\* of its session, and the session has raised an error and returned no value.
C26_MalformedFrameFails ==
    \A s \in Sessions :
        \A i \in 1..Len(received[s]) :
            ~WellFormed(received[s][i])
            => /\ i = Len(received[s])
               /\ pc[s] = "raised"
               /\ raised[s] # NoError
               /\ retval[s] = NoReturn

\* C26 witness: after one accumulated record a frame whose "type" is a number
\* arrived and the session raised.
C26_Witness ==
    \E s \in Sessions :
        /\ Len(received[s]) = 2
        /\ Len(records[s]) = 1
        /\ Last(received[s]) = Msg(TypeNumber, RowA1)
        /\ pc[s] = "raised"

\* A frame that ends the session: END, ERROR, a RECORD with missing or empty
\* data, or a malformed frame.
IsTerminalFrame(f) ==
    \/ ~WellFormed(f)
    \/ IsEndFrame(f)
    \/ IsErrorFrame(f)
    \/ IsRecordFrame(f) /\ ~IsDataRecord(f)

TerminalPositions(st) ==
    {i \in 1..Len(st.frames) : IsTerminalFrame(st.frames[i])}

HasTerminalEvent(st) == TerminalPositions(st) # {} \/ st.closes

\* The frames up to and including the first terminal one; all of them when
\* there is none.
UpToFirstTerminal(st) ==
    IF TerminalPositions(st) = {} THEN st.frames
    ELSE SubSeq(st.frames, 1,
                CHOOSE i \in TerminalPositions(st) :
                    \A j \in TerminalPositions(st) : i <= j)

\* C27.  Termination: when the server's stream holds a terminal event (a
\* terminal frame, or a connection failure after its frames), the session
\* eventually returns or raises; a finished session has consumed exactly the
\* frames up to and including the first terminal event; and a session that
\* has consumed a terminal frame is finished.
C27_TerminatesAtFirstTerminalEvent ==
    \A s \in Solo :
        /\ HasTerminalEvent(stream[s]) => <>Terminal(s)
        /\ [](Terminal(s) => received[s] = UpToFirstTerminal(stream[s]))
        /\ []((\E i \in 1..Len(received[s]) : IsTerminalFrame(received[s][i]))
              => Terminal(s))

\* C27 witness: the second frame of the stream was the first terminal one and
\* the session ended there, leaving a later terminal frame unread.
C27_Witness ==
    \E s \in Solo :
        /\ Len(stream[s].frames) = 3
        /\ TerminalPositions(stream[s]) = {2, 3}
        /\ Len(received[s]) = 2
        /\ Terminal(s)

(***************************************************************************)
(* Properties of the tool facade.                                          *)
(***************************************************************************)
\* The tool `name` has been invoked (and the call is under way or over).
Invoked(name) == tpc # "idle" /\ tool.name = name

\* The call was refused by validation: ValueError, and no exchange begun.
RefusedLocally ==
    /\ tpc = "raised"
    /\ traised.kind = "ValueError"
    /\ ncalls = 0
    /\ nreq = 0
    /\ hrequest = NoRequest

\* A resource name: lowercase letters, digits and hyphens, 1 to 63
\* characters, no hyphen first or last.
ValidResourceName(n) ==
    /\ Len(n) \in 1..MaxResourceNameLen
    /\ \A i \in 1..Len(n) : n[i] \in (48..57) \cup (97..122) \cup {HYPHEN}
    /\ n[1] # HYPHEN
    /\ n[Len(n)] # HYPHEN

\* C21 (as claimed).  Name validation: create_environment, its tier being
\* valid, proceeds to the POST exactly when the name is a resource name, and
\* otherwise raises ValueError without any exchange.
C21_NameValidation ==
    (Invoked("create_environment") /\ tool.a.tier \in ValidTiers)
    => IF ValidResourceName(tool.a.name)
       THEN ncalls = 1 /\ hrequest.method = "POST"
       ELSE RefusedLocally

\* The same, with letters of either case allowed: what the code enforces.
C21_NameValidationEitherCase ==
    (Invoked("create_environment") /\ tool.a.tier \in ValidTiers)
    => IF ValidResourceName(Lower(tool.a.name))
       THEN ncalls = 1 /\ hrequest.method = "POST"
       ELSE RefusedLocally

\* C22.  Tier validation: create_environment and update_environment given a
\* tier outside {development, staging, production} raise ValueError and begin
\* no exchange; update_environment given no tier, a name and another field
\* proceeds to its PATCH.
C22_TierValidation ==
    /\ (/\ Invoked("create_environment") \/ Invoked("update_environment")
        /\ tool.a.tier \notin ValidTiers \cup {DataNone})
       => RefusedLocally
    /\ (/\ Invoked("update_environment")
        /\ tool.a.tier = DataNone
        /\ tool.a.name # <<>>
        /\ tool.a.display_name # DataNone \/ tool.a.metadata # DataNone)
       => ncalls = 1 /\ hrequest.method = "PATCH"

\* C22 witness: update_environment was refused for the tier "Production",
\* its other arguments being in order.
C22_Witness ==
    /\ Invoked("update_environment")
    /\ tool.a.tier = JStr(<<80, 114, 111, 100, 117, 99, 116, 105, 111, 110>>)
    /\ tool.a.name # <<>>
    /\ tool.a.display_name = JStr(<<120>>)
    /\ RefusedLocally

\* The arguments fail the tool's own validation.
FailsValidation ==
    \/ /\ Invoked("get_environment") \/ Invoked("delete_environment")
       /\ tool.a.name = <<>>
    \/ /\ Invoked("update_environment")
       /\ tool.a.display_name = DataNone
       /\ tool.a.tier = DataNone
       /\ tool.a.metadata = DataNone
    \/ /\ Invoked("set_action_on_kafka_connector")
       /\ tool.a.action \notin ValidActions
    \/ /\ Invoked("set_dataset_description")
       /\ Remove(Remove(Remove(tool.a.description, 32), 9), 10) = <<>>

Supplied(pairs) == {p \in pairs : p[2] # DataNone}

\* <<key, {...}>> when one of the pairs is supplied, nothing otherwise.
Nested(key, pairs) ==
    IF Supplied(pairs) = {} THEN {} ELSE {<<key, JObj(Supplied(pairs))>>}

\* The body that holds the field of an optional argument exactly when the
\* argument was supplied.
ExpectedBody(name, a) ==
    CASE name = "create_environment" ->
            {<<"name", JStr(a.name)>>, <<"tier", a.tier>>}
            \cup Supplied({<<"display_name", a.display_name>>,
                           <<"metadata", a.metadata>>})
      [] name = "update_environment" ->
            Supplied({<<"display_name", a.display_name>>, <<"tier", a.tier>>,
                      <<"metadata", a.metadata>>})
      [] name = "create_topic_advanced" ->
            {<<"name", JStr(a.name)>>, <<"partitions", a.partitions>>,
             <<"replication", a.replication>>}
            \cup Supplied({<<"configs", a.configs>>})
            \cup Nested("format",
                        Nested("key", {<<"format", a.key_format>>,
                                       <<"schema", a.key_schema>>})
                        \cup Nested("value", {<<"format", a.value_format>>,
                                              <<"schema", a.value_schema>>}))
      [] OTHER ->
            {<<"topicName", JStr(a.topic_name)>>}
            \cup Supplied({<<"keyType", a.key_type>>,
                           <<"valueType", a.value_type>>,
                           <<"keySchema", a.key_schema>>,
                           <<"keySchemaVersion", a.key_schema_version>>,
                           <<"keySchemaInlined", a.key_schema_inlined>>,
                           <<"valueSchema", a.value_schema>>,
                           <<"valueSchemaVersion", a.value_schema_version>>,
                           <<"valueSchemaInlined", a.value_schema_inlined>>,
                           <<"description", a.description>>,
                           <<"tags", a.tags>>,
                           <<"additionalInfo", a.additional_info>>})

\* C24 (as claimed).  Field-presence fidelity: the body a body-building tool
\* passes on holds the field of each optional argument exactly when the
\* caller supplied it, with the supplied value, empty and zero values
\* included.
C24_FieldPresence ==
    (/\ tpc # "idle"
     /\ tool.name \in {"create_environment", "update_environment",
                       "create_topic_advanced", "create_topic_metadata"}
     /\ ncalls = 1)
    => hrequest.json = JObj(ExpectedBody(tool.name, tool.a))

\* The offset tools of the consumer groups.
OffsetTools == {"update_consumer_group_offsets", "delete_consumer_group_offsets",
                "update_consumer_group_topic_partition_offset"}

\* C28 (as claimed).  The offset tools delegate: each makes one exchange with
\* its method, carrying its payload as the JSON body, returns what the
\* exchange returned, and raises only what the exchange raised.
C28_OffsetToolsDelegate ==
    (tpc # "idle" /\ tool.name \in OffsetTools)
    => /\ ncalls = 1
       /\ hrequest.method =
            (IF tool.name = "delete_consumer_group_offsets" THEN "POST" ELSE "PUT")
       /\ tpc = "returned" => tret = hret
       /\ tpc = "raised" => traised = hraised /\ hpc = "raised"

\* C29 (as claimed).  Closed error channel: whatever _make_request raises is
\* an Exception whose message starts with "API request failed: " or with
\* "Network error: ".
C29_ClosedErrorChannel ==
    hpc = "raised"
    => \/ StartsWith(hraised.msg, ApiRequestFailed)
       \/ StartsWith(hraised.msg, NetworkErrorPrefix)

\* Text `str` ends with text `suf`.
EndsWith(str, suf) ==
    Len(suf) <= Len(str)
    /\ SubSeq(str, Len(str) - Len(suf) + 1, Len(str)) = suf

\* The endpoint of the tool call under way.
ToolEndpoint == Dispatch(tool.name, tool.a).endpoint

\* C30.  Connection target: no step changes a client's base URL, headers or
\* cookies; every unary request goes to the base URL followed by the tool's
\* endpoint, with the client's headers and cookies; every session connects
\* to the base URL followed by the SQL endpoint.
C30_TargetImmutable ==
    /\ [][base_url' = base_url /\ headers' = headers /\ cookies' = cookies]_vars
    /\ []((tpc # "idle" /\ ncalls = 1)
          => /\ StartsWith(hrequest.url, base_url["http"])
             /\ EndsWith(hrequest.url, ToolEndpoint)
             /\ Len(hrequest.url) = Len(base_url["http"]) + Len(ToolEndpoint)
             /\ hrequest.headers = headers["http"]
             /\ hrequest.cookies = cookies)
    /\ [](\A s \in Sessions :
            pc[s] # "idle"
            => /\ StartsWith(uri[s], base_url["ws"])
               /\ EndsWith(uri[s], SqlEndpoint(Environment)))

\* C30 witness: update_environment has returned from a 200 answered at the
\* base URL "h" followed by the environment's path.
C30_Witness ==
    /\ base_url["http"] = <<104>>
    /\ tpc = "returned"
    /\ Invoked("update_environment")
    /\ hrequest.url = <<104>> \o EnvironmentPath(<<97>>)
    /\ hresponse.status = 200

=============================================================================
